---- MODULE Spec2Model ----
(***************************************************************************)
(* A model of artisan's artifact build cache (python/artisan/_artifacts.py).*)
(*                                                                         *)
(* Part 1, the cache coordinator: callers of Artifact(...) share one root  *)
(* directory.  Every filesystem access of _find_or_build, _ensure_built,   *)
(* _build, _new_artifact_path, _read_meta and _write_meta is one step of   *)
(* the calling process, so that callers interleave between any two of      *)
(* them.  Path.write_text opens the file with mode 'w' (which truncates    *)
(* it) and writes the text when it closes the file: a reader in between    *)
(* sees an empty file, for which yaml.safe_load returns None.              *)
(***************************************************************************)
EXTENDS Integers, Sequences, FiniteSets, TLC

\* ---- bounds -------------------------------------------------------------
NumProcs == 2      \* callers of the constructor
NumSpecs == 2      \* distinct specifications (all of one "type")
MaxPre == 1        \* directories in the root before the first call
BuildLen == 1      \* entries the build routine writes before it returns
MaxOps == 2        \* storage operations on the artifact of part 2
MaxRows == 1       \* rows of an array value

Procs == 1..NumProcs
Specs == 1..NumSpecs
\* Path i stands for root / f'{spec["type"]}_{date}_{i:04x}'.
Paths == 0..(MaxPre + NumProcs - 1)
\* Python's None as a spec.
NoSpec == 0

Statuses == {"running", "done", "stopped"}

\* ---- the sidecar file _meta.yaml ----------------------------------------
\* The content last written completely: no file, text that is not YAML, or
\* a record dict(spec=..., status=...).
Missing == [kind |-> "missing", spec |-> NoSpec, status |-> "none"]
Bad == [kind |-> "bad", spec |-> NoSpec, status |-> "none"]
Rec(s, st) == [kind |-> "rec", spec |-> s, status |-> st]
IsRec(m) == m.kind = "rec"

\* What the build routine of specification s writes as its k-th entry.
BuildEntry(s, k) == [key |-> k, val |-> s]
BuildPrefix(s, n) == [k \in 1..n |-> BuildEntry(s, k)]

VARIABLES
    exists,    \* exists[d]: directory d is in the root
    meta,      \* meta[d]: content of d/_meta.yaml as last written completely
    trunc,     \* trunc[d]: d/_meta.yaml is open for writing, truncated
    entries,   \* entries[d]: the public entries of d, in the order written
    pc,        \* pc[p]: where caller p is in the constructor
    mode,      \* mode[p]: "find" (spec), "explicit" (path, spec), "bind" (path)
    spec,      \* spec[p]: the requested specification
    path,      \* path[p]: artifact.path
    todo,      \* todo[p]: candidates of the root scan not yet tried
    stage,     \* stage[p]: the status _build writes next
    invoked,   \* invoked[p]: p has called artifact.build
    outcome,   \* outcome[p]: how the constructor ended
    written,   \* written[p]: entries p's build routine has written so far
    pre,       \* pre[p]: the root, and the callers under way, when p called
    files,     \* files[n]: what is stored under name n in one artifact directory
    files0,    \* files as they were before the first storage operation
    log        \* the storage operations performed, with how each ended

fsVars == <<exists, meta, trunc, entries>>
callVars == <<pc, mode, spec, path, todo, stage, invoked, outcome, written, pre>>
treeVars == <<files, files0, log>>
vars == <<fsVars, callVars, treeVars>>

Active == {q \in Procs : pc[q] \notin {"idle", "done"}}
Snapshot == [exists |-> exists, meta |-> meta, entries |-> entries,
             active |-> Active]

\* ---- _read_meta ---------------------------------------------------------
Fallback == [none |-> FALSE, spec |-> NoSpec, status |-> "done"]
YamlNone == [none |-> TRUE, spec |-> NoSpec, status |-> "none"]

\* yaml.safe_load of the file's text; any exception gives the fallback.
\* An empty file is valid YAML and loads as None.
ReadMeta(d) ==
    IF ~exists[d] THEN Fallback
    ELSE IF trunc[d] THEN YamlNone
    ELSE IF IsRec(meta[d])
         THEN [none |-> FALSE, spec |-> meta[d].spec, status |-> meta[d].status]
         ELSE Fallback

\* ---- names and keys of the storage tree --------------------------------
(***************************************************************************)
(* Part 2, the storage tree: one artifact directory and the operations of  *)
(* Artifact on its entries.  A key or a file name is a sequence of tokens: *)
(* "." and "_" are those characters, every other token is a run of other   *)
(* characters.                                                             *)
(***************************************************************************)
Keys == { <<"x">>, <<"x", "_", "_", "t">>, <<"x", ".", "t">> }
H5Suffix == <<".", "h5">>

\* A variant that leaves the key as it is.
KeyAsGiven(key) == SubSeq(key, 1, Len(key))

\* key.replace('__', '.'): left to right, without overlap.
RECURSIVE KeyToName(_)
KeyToName(key) ==
    IF key = <<>> THEN <<>>
    ELSE IF Len(key) >= 2 /\ key[1] = "_" /\ key[2] = "_"
         THEN <<".">> \o KeyToName(SubSeq(key, 3, Len(key)))
         ELSE <<key[1]>> \o KeyToName(Tail(key))

\* name.rfind('.'), counted from 1; 0 when there is no dot.
LastDot(name) ==
    LET dots == {i \in 1..Len(name) : name[i] = "."}
    IN  IF dots = {} THEN 0 ELSE CHOOSE i \in dots : \A j \in dots : j <= i

\* PurePath.suffix: from the last dot, unless it starts or ends the name.
Suffix(name) ==
    LET i == LastDot(name)
    IN  IF 1 < i /\ i < Len(name) THEN SubSeq(name, i, Len(name)) ELSE <<>>

\* path.with_suffix('.h5')
WithSuffixH5(name) ==
    IF Suffix(name) = <<>> THEN name \o H5Suffix
    ELSE SubSeq(name, 1, LastDot(name) - 1) \o H5Suffix

\* Path(f'{path}.h5')
PlusH5(name) == name \o H5Suffix

\* The sidecar file of the artifact directory itself.
MetaName == <<"_", "meta", ".", "yaml">>

\* Every file name the operations can look at.
Names ==
    LET base == Keys \cup {KeyToName(k) : k \in Keys}
    IN  base \cup {PlusH5(n) : n \in base} \cup {WithSuffixH5(n) : n \in base}
             \cup {MetaName}

\* What a name holds: nothing, an HDF5 file with dataset 'data', any other
\* file, or a directory.
NoNode == [kind |-> "none", data |-> <<>>]
H5Node(rows) == [kind |-> "h5", data |-> rows]
FileNode(bytes) == [kind |-> "file", data |-> bytes]
DirNode == [kind |-> "dir", data |-> <<>>]
\* Path.is_file()
IsFile(f, n) == f[n].kind \in {"h5", "file"}

Vals == {0, 1}
\* Contents of the external files handed to the artifact.
Blobs == {<<v>> : v \in Vals}
\* Array values: 1 to MaxRows rows with the same (empty) trailing shape.
RowBatches == UNION {[1..n -> Vals] : n \in 1..MaxRows}

NoFiles == [n \in Names |-> NoNode]

\* ---- Init ---------------------------------------------------------------
\* Entries of a directory found in the root: a finished build left all of
\* them, a build stopped mid-way left some.
PreEntries(m) ==
    IF ~IsRec(m) THEN <<>>
    ELSE IF m.status = "done" THEN BuildPrefix(m.spec, BuildLen)
    ELSE IF m.status = "stopped" THEN BuildPrefix(m.spec, BuildLen - 1)
    ELSE <<>>

PreMetas == {Missing, Bad} \cup {Rec(s, st) : s \in Specs, st \in Statuses}

InitRoot ==
    /\ \E k \in 0..MaxPre :
         /\ exists = [d \in Paths |-> d < k]
         /\ \E m \in [Paths -> PreMetas] :
              /\ meta = [d \in Paths |-> IF d < k THEN m[d] ELSE Missing]
              /\ entries = [d \in Paths |-> IF d < k THEN PreEntries(m[d]) ELSE <<>>]
    /\ trunc = [d \in Paths |-> FALSE]

InitCallers ==
    /\ pc = [p \in Procs |-> "idle"]
    /\ mode = [p \in Procs |-> "bind"]
    /\ spec = [p \in Procs |-> NoSpec]
    /\ path = [p \in Procs |-> 0]
    /\ todo = [p \in Procs |-> {}]
    /\ stage = [p \in Procs |-> "running"]
    /\ invoked = [p \in Procs |-> FALSE]
    /\ outcome = [p \in Procs |-> "none"]
    /\ written = [p \in Procs |-> 0]
    /\ pre = [p \in Procs |-> Snapshot]

InitNoTree ==
    /\ files = NoFiles
    /\ files0 = NoFiles
    /\ log = <<>>

Init == InitRoot /\ InitCallers /\ InitNoTree

\* ---- Artifact.__new__ ---------------------------------------------------
Finish(p, o) ==
    /\ pc' = [pc EXCEPT ![p] = "done"]
    /\ outcome' = [outcome EXCEPT ![p] = o]

\* Callers are interchangeable: they are numbered in the order they call.
MayCall(p) ==
    /\ pc[p] = "idle"
    /\ \A q \in Procs : q < p => pc[q] # "idle"

\* FileExistsError raised inside _ensure_built: _find_or_build tries the
\* next candidate, an explicit path lets it reach the caller.
RaiseFileExists(p, o) ==
    IF mode[p] = "find"
    THEN pc' = [pc EXCEPT ![p] = "next"] /\ UNCHANGED outcome
    ELSE Finish(p, o)

\* Artifact(spec): path is None, _find_or_build.
CallFind(p) ==
    /\ MayCall(p)
    /\ \E s \in Specs : spec' = [spec EXCEPT ![p] = s]
    /\ mode' = [mode EXCEPT ![p] = "find"]
    /\ pc' = [pc EXCEPT ![p] = "iterdir"]
    /\ pre' = [pre EXCEPT ![p] = Snapshot]
    /\ UNCHANGED <<fsVars, path, todo, stage, invoked, outcome, written,
                   treeVars>>

\* Artifact(path, spec): _ensure_built.
CallExplicit(p) ==
    /\ MayCall(p)
    /\ \E s \in Specs : spec' = [spec EXCEPT ![p] = s]
    /\ \E d \in Paths : path' = [path EXCEPT ![p] = d]
    /\ mode' = [mode EXCEPT ![p] = "explicit"]
    /\ pc' = [pc EXCEPT ![p] = "exists"]
    /\ pre' = [pre EXCEPT ![p] = Snapshot]
    /\ UNCHANGED <<fsVars, todo, stage, invoked, outcome, written, treeVars>>

\* A variant of the constructor that hands a path without a specification
\* to _ensure_built.
CallBindEnsures(p) ==
    /\ MayCall(p)
    /\ \E d \in Paths : path' = [path EXCEPT ![p] = d]
    /\ mode' = [mode EXCEPT ![p] = "bind"]
    /\ pc' = [pc EXCEPT ![p] = "exists"]
    /\ pre' = [pre EXCEPT ![p] = Snapshot]
    /\ UNCHANGED <<fsVars, spec, todo, stage, invoked, outcome, written,
                   treeVars>>

\* Artifact(path): neither _find_or_build nor _ensure_built is called.
CallBind(p) ==
    /\ MayCall(p)
    /\ \E d \in Paths : path' = [path EXCEPT ![p] = d]
    /\ mode' = [mode EXCEPT ![p] = "bind"]
    /\ pre' = [pre EXCEPT ![p] = Snapshot]
    /\ Finish(p, "bound")
    /\ UNCHANGED <<fsVars, spec, todo, stage, invoked, written, treeVars>>

\* ---- _find_or_build -----------------------------------------------------
\* Path(root).iterdir(): the listing is taken once, its order is arbitrary.
ListDirNothing == {}
ListDir == {d \in Paths : exists[d]}

IterDir(p) ==
    /\ pc[p] = "iterdir"
    /\ todo' = [todo EXCEPT ![p] = ListDir]
    /\ pc' = [pc EXCEPT ![p] = "next"]
    /\ UNCHANGED <<fsVars, mode, spec, path, stage, invoked, outcome, pre,
                   written, treeVars>>

\* The loop header: bind artifact.path to the next candidate.
NextCandidate(p) ==
    /\ pc[p] = "next"
    /\ todo[p] # {}
    /\ \E d \in todo[p] :
         /\ path' = [path EXCEPT ![p] = d]
         /\ todo' = [todo EXCEPT ![p] = todo[p] \ {d}]
    /\ pc' = [pc EXCEPT ![p] = "exists"]
    /\ UNCHANGED <<fsVars, mode, spec, stage, invoked, outcome, pre, written,
                   treeVars>>

\* _new_artifact_path: the first i whose name is free.  Directories are
\* never removed, so the probes for 0..i agree with one look at the root.
\* (a variant: the first name, without probing)
NewArtifactPathNoProbe == CHOOSE i \in Paths : \A j \in Paths : i <= j
NewArtifactPath == CHOOSE i \in Paths : ~exists[i] /\ \A j \in 0..(i - 1) : exists[j]

NewPath(p) ==
    /\ pc[p] = "next"
    /\ todo[p] = {}
    /\ path' = [path EXCEPT ![p] = NewArtifactPath]
    /\ pc' = [pc EXCEPT ![p] = "mkdir"]
    /\ UNCHANGED <<fsVars, mode, spec, todo, stage, invoked, outcome, pre,
                   written, treeVars>>

\* ---- _ensure_built ------------------------------------------------------
PathExists(p) ==
    /\ pc[p] = "exists"
    /\ pc' = [pc EXCEPT ![p] = IF exists[path[p]] THEN "readspec" ELSE "mkdir"]
    /\ UNCHANGED <<fsVars, mode, spec, path, todo, stage, invoked, outcome,
                   pre, written, treeVars>>

\* _read_meta(artifact)['spec'] != spec; None['spec'] is a TypeError.
SpecDiffersAlways(r, s) == TRUE
SpecDiffersUnlessNone(r, s) == r.spec # s /\ r.spec # NoSpec
SpecDiffersNever(r, s) == r.spec # s /\ r.none
SpecDiffers(r, s) == r.spec # s

ReadSpec(p) ==
    /\ pc[p] = "readspec"
    /\ LET r == ReadMeta(path[p]) IN
         IF r.none THEN Finish(p, "type_error")
         ELSE IF SpecDiffers(r, spec[p]) THEN RaiseFileExists(p, "incompatible")
         ELSE pc' = [pc EXCEPT ![p] = "wait"] /\ UNCHANGED outcome
    /\ UNCHANGED <<fsVars, mode, spec, path, todo, stage, invoked, pre,
                   written, treeVars>>

\* while _read_meta(artifact)['status'] == 'running': sleep(0.001)
NeverRunning(r) == r.status = "running" /\ r.none
StuckRunning(r) == r.status \in {"running", "done"}
StillRunning(r) == r.status = "running"

Wait(p) ==
    /\ pc[p] = "wait"
    /\ LET r == ReadMeta(path[p]) IN
         IF r.none THEN Finish(p, "type_error")
         ELSE IF StillRunning(r) THEN UNCHANGED <<pc, outcome>>
         ELSE pc' = [pc EXCEPT ![p] = "check"] /\ UNCHANGED outcome
    /\ UNCHANGED <<fsVars, mode, spec, path, todo, stage, invoked, pre,
                   written, treeVars>>

\* if _read_meta(artifact)['status'] == 'stopped': raise FileExistsError
CheckStopped(p) ==
    /\ pc[p] = "check"
    /\ LET r == ReadMeta(path[p]) IN
         IF r.none THEN Finish(p, "type_error")
         ELSE IF r.status = "stopped" THEN RaiseFileExists(p, "stopped")
         ELSE Finish(p, "bound")
    /\ UNCHANGED <<fsVars, mode, spec, path, todo, stage, invoked, pre,
                   written, treeVars>>

\* ---- _build -------------------------------------------------------------
\* artifact.path.mkdir(parents=True): FileExistsError if the path exists.
MkdirExistOk(d) == FALSE
MkdirFails(d) == exists[d]

Mkdir(p) ==
    /\ pc[p] = "mkdir"
    /\ IF MkdirFails(path[p])
       THEN Finish(p, "mkdir_exists") /\ UNCHANGED <<exists, stage>>
       ELSE /\ exists' = [exists EXCEPT ![path[p]] = TRUE]
            /\ stage' = [stage EXCEPT ![p] = "running"]
            /\ pc' = [pc EXCEPT ![p] = "wm_open"]
            /\ UNCHANGED outcome
    /\ UNCHANGED <<meta, trunc, entries, mode, spec, path, todo, invoked,
                   pre, written, treeVars>>

\* _write_meta, first half: write_text opens _meta.yaml with mode 'w'.
WriteMetaOpen(p) ==
    /\ pc[p] = "wm_open"
    /\ trunc' = [trunc EXCEPT ![path[p]] = TRUE]
    /\ pc' = [pc EXCEPT ![p] = "wm_flush"]
    /\ UNCHANGED <<exists, meta, entries, mode, spec, path, todo, stage,
                   invoked, outcome, pre, written, treeVars>>

\* _write_meta, second half: the text reaches the file as it is closed.
\* What _build does next depends on the status just written.
WrittenMeta(p) == Rec(spec[p], stage[p])

WriteMetaFlush(p) ==
    /\ pc[p] = "wm_flush"
    /\ meta' = [meta EXCEPT ![path[p]] = WrittenMeta(p)]
    /\ trunc' = [trunc EXCEPT ![path[p]] = FALSE]
    /\ IF stage[p] = "running"
       THEN pc' = [pc EXCEPT ![p] = "call_build"] /\ UNCHANGED outcome
       ELSE IF stage[p] = "done" THEN Finish(p, "built")
       ELSE Finish(p, "build_error")
    /\ UNCHANGED <<exists, entries, mode, spec, path, todo, stage, invoked,
                   pre, written, treeVars>>

\* artifact.build(...) is called.
BuildInvoke(p) ==
    /\ pc[p] = "call_build"
    /\ invoked' = [invoked EXCEPT ![p] = TRUE]
    /\ pc' = [pc EXCEPT ![p] = "build"]
    /\ UNCHANGED <<fsVars, mode, spec, path, todo, stage, outcome, pre,
                   written, treeVars>>

\* The build routine writes its next entry into the artifact.
BuildWrite(p) ==
    /\ pc[p] = "build"
    /\ written[p] < BuildLen
    /\ entries' = [entries EXCEPT ![path[p]] =
                     Append(@, BuildEntry(spec[p], written[p] + 1))]
    /\ written' = [written EXCEPT ![p] = @ + 1]
    /\ UNCHANGED <<exists, meta, trunc, pc, mode, spec, path, todo, stage,
                   invoked, outcome, pre, treeVars>>

\* The build routine returns: _build goes on to write status 'done'.
BuildReturn(p) ==
    /\ pc[p] = "build"
    /\ written[p] = BuildLen
    /\ stage' = [stage EXCEPT ![p] = "done"]
    /\ pc' = [pc EXCEPT ![p] = "wm_open"]
    /\ UNCHANGED <<fsVars, mode, spec, path, todo, invoked, outcome, pre,
                   written, treeVars>>

\* The build routine raises, at any point: the except clause writes status
\* 'stopped' and re-raises.  Nothing is removed.
EntriesRolledBack(e) == <<>>
EntriesAfterRaise(e) == e

BuildRaise(p) ==
    /\ pc[p] = "build"
    /\ stage' = [stage EXCEPT ![p] = "stopped"]
    /\ pc' = [pc EXCEPT ![p] = "wm_open"]
    /\ entries' = [entries EXCEPT ![path[p]] = EntriesAfterRaise(@)]
    /\ UNCHANGED <<exists, meta, trunc, mode, spec, path, todo, invoked,
                   outcome, pre, written, treeVars>>

\* ---- the specification --------------------------------------------------
Next ==
    \E p \in Procs :
        \/ CallFind(p)
        \/ CallExplicit(p)
        \/ CallBind(p)
        \/ IterDir(p)
        \/ NextCandidate(p)
        \/ NewPath(p)
        \/ PathExists(p)
        \/ ReadSpec(p)
        \/ Wait(p)
        \/ CheckStopped(p)
        \/ Mkdir(p)
        \/ WriteMetaOpen(p)
        \/ WriteMetaFlush(p)
        \/ BuildInvoke(p)
        \/ BuildWrite(p)
        \/ BuildReturn(p)
        \/ BuildRaise(p)

Spec == Init /\ [][Next]_vars

\* The steps of caller p inside the constructor, its call excluded.  Each
\* caller is a running thread or process: the scheduler lets it take its
\* next step, and the build routine it runs comes to an end.
Step(p) ==
    \/ IterDir(p)
    \/ NextCandidate(p)
    \/ NewPath(p)
    \/ PathExists(p)
    \/ ReadSpec(p)
    \/ Wait(p)
    \/ CheckStopped(p)
    \/ Mkdir(p)
    \/ WriteMetaOpen(p)
    \/ WriteMetaFlush(p)
    \/ BuildInvoke(p)
    \/ BuildWrite(p)
    \/ BuildReturn(p)
    \/ BuildRaise(p)

SpecFair == Spec /\ \A p \in Procs : WF_vars(Step(p))

\* ---- the storage tree ---------------------------------------------------
\* Artifact.__getitem__: an ArrayFile, an EncodedFile (the path) or a
\* sub-Artifact (a directory, or nothing).
Entry(kind, name, data) == [kind |-> kind, name |-> name, data |-> data]

\* _read_h5: h5.File(path, 'r')['data']
ReadH5(f, n) ==
    IF f[n].kind = "h5" THEN Entry("array", n, f[n].data)
    ELSE Entry("error", n, <<>>)

GetItemIn(f, key) ==
    LET name == KeyToName(key)
    IN  IF IsFile(f, PlusH5(name)) THEN ReadH5(f, WithSuffixH5(name))
        ELSE IF IsFile(f, name) THEN Entry("encoded", name, f[name].data)
        ELSE Entry("artifact", name, <<>>)

GetItem(key) == GetItemIn(files, key)

Logged(op, key, val, res) == [op |-> op, key |-> key, val |-> val, res |-> res]

\* Artifact.extend: the path is self.path / key, as given.
ExtendPath(key) == key

\* h5py's require_dataset with shape=None on a file that already holds
\* 'data': releases of h5py differ, it returns the dataset or raises
\* TypeError (shapes do not match).
RequireExisting == {"open", "TypeError"}

\* _exend_h5: h5.File(path) in append mode, require_dataset, resize, write
\* the rows at the end, flush.
ExendH5(n, rows, how) ==
    IF files[n].kind = "none"
    THEN [f |-> [files EXCEPT ![n] = H5Node(rows)], res |-> "ok"]
    ELSE IF files[n].kind = "h5"
    THEN IF how = "open"
         THEN [f |-> [files EXCEPT ![n] = H5Node(@.data \o rows)], res |-> "ok"]
         ELSE [f |-> files, res |-> "TypeError"]
    ELSE [f |-> files, res |-> "OSError"]

\* Artifact.extend(key, val) with val an np.ndarray.
ExtendArray(key, rows) ==
    /\ Len(log) < MaxOps
    /\ \E how \in RequireExisting :
         LET n == ExtendPath(key)
             r == IF Suffix(n) # <<>>
                  THEN [f |-> files, res |-> "AssertionError"]
                  ELSE ExendH5(n, rows, how)
         IN  /\ files' = r.f
             /\ log' = Append(log, Logged("extend", key, rows, r.res))
    /\ UNCHANGED <<fsVars, callVars, files0>>

\* shutil.rmtree(path, ignore_errors=True): a directory is removed with all
\* it holds; on a regular file, or on nothing, rmtree fails (it lists the
\* path as a directory) and the error is ignored.
RmTree(f, n) == IF f[n].kind = "dir" THEN [f EXCEPT ![n] = NoNode] ELSE f

\* _write_h5: rmtree, then h5.File(path) opens the file for appending
\* (creating it when missing) and create_dataset('data') fails when the
\* file already holds 'data'; a file that is not HDF5 cannot be opened.
WriteH5(n, rows) ==
    LET f == RmTree(files, n)
    IN  IF f[n].kind = "none"
        THEN [f |-> [f EXCEPT ![n] = H5Node(rows)], res |-> "ok"]
        ELSE IF f[n].kind = "h5"
        THEN [f |-> f, res |-> "NameExists"]
        ELSE [f |-> f, res |-> "OSError"]

\* Artifact.__setitem__(key, val) with val an np.ndarray.
SetArray(key, rows) ==
    /\ Len(log) < MaxOps
    /\ LET name == KeyToName(key)
           r == IF Suffix(name) # <<>>
                THEN [f |-> files, res |-> "AssertionError"]
                ELSE WriteH5(WithSuffixH5(name), rows)
       IN  /\ files' = r.f
           /\ log' = Append(log, Logged("set", key, rows, r.res))
    /\ UNCHANGED <<fsVars, callVars, files0>>

\* _copy_file: rmtree, then shutil.copy writes src's bytes to dst,
\* replacing a file that is there.
CopyFile(n, bytes) == [RmTree(files, n) EXCEPT ![n] = FileNode(bytes)]

\* Artifact.__setitem__(key, val) with val the Path of an existing file.
SetFile(key, bytes) ==
    /\ Len(log) < MaxOps
    /\ LET name == KeyToName(key)
           r == IF Suffix(name) = <<>>
                THEN [f |-> files, res |-> "AssertionError"]
                ELSE [f |-> CopyFile(name, bytes), res |-> "ok"]
       IN  /\ files' = r.f
           /\ log' = Append(log, Logged("setfile", key, bytes, r.res))
    /\ UNCHANGED <<fsVars, callVars, files0>>

\* Artifact.__delitem__: the path is self.path / key.replace('__', '.').
DelPathStem(key) ==
    LET name == KeyToName(key)
    IN  IF Suffix(name) = <<>> THEN name
        ELSE SubSeq(name, 1, LastDot(name) - 1)
DelPath(key) == KeyToName(key)

DelItem(key) ==
    /\ Len(log) < MaxOps
    /\ files' = RmTree(files, DelPath(key))
    /\ log' = Append(log, Logged("delete", key, <<>>, "ok"))
    /\ UNCHANGED <<fsVars, callVars, files0>>

\* self.path.glob('[!_]*'): the names present that do not start with "_".
Public(f) == {n \in Names : f[n].kind # "none" /\ n[1] # "_"}

\* Artifact.__len__
LenOf(f) == Cardinality(Public(f))

\* Artifact.__iter__: p.name[:-3] if p.suffix == '.h5' else p.name
IterKey(n) ==
    IF Suffix(n) = H5Suffix THEN SubSeq(n, 1, Len(n) - 2) ELSE n

\* How many times __iter__ yields k.
Yields(f, k) == Cardinality({n \in Public(f) : IterKey(n) = k})

\* The artifact directory before the first operation: its sidecar file
\* and nothing else, or also one array file, one other file or one
\* subdirectory.
OnlyMeta == [NoFiles EXCEPT ![MetaName] = FileNode(<<>>)]

InitFiles ==
    /\ files0 \in {OnlyMeta} \cup
         {[OnlyMeta EXCEPT ![n] = e] :
            n \in Names \ {MetaName},
            e \in {H5Node(<<0>>), FileNode(<<0>>), DirNode}}
    /\ files = files0
    /\ log = <<>>

InitTree ==
    /\ exists = [d \in Paths |-> FALSE]
    /\ meta = [d \in Paths |-> Missing]
    /\ entries = [d \in Paths |-> <<>>]
    /\ trunc = [d \in Paths |-> FALSE]
    /\ InitCallers
    /\ InitFiles

NextTree ==
    \E key \in Keys :
        \/ \E rows \in RowBatches : ExtendArray(key, rows)
        \/ \E rows \in RowBatches : SetArray(key, rows)
        \/ \E bytes \in Blobs : SetFile(key, bytes)
        \/ DelItem(key)

SpecTree == InitTree /\ [][NextTree]_vars

\* ---- properties of the cache coordinator --------------------------------
Called(p) == pc[p] # "idle"

\* No other caller was under way at any time during p's call.
Alone(p) ==
    /\ pre[p].active = {}
    /\ \A r \in Procs \ {p} : Called(r) => p \notin pre[r].active

\* The directories of a snapshot that record specification s.
Records(snap, s) ==
    {d \in Paths : snap.exists[d] /\ IsRec(snap.meta[d]) /\ snap.meta[d].spec = s}

Unreadable(snap) == {d \in Paths : snap.exists[d] /\ ~IsRec(snap.meta[d])}

BuildPcs == {"mkdir", "wm_open", "wm_flush", "call_build", "build"}

\* C1: two concurrent Artifact(spec) calls with the same specification,
\* both made while no directory records it, whose build routine does not
\* raise and neither of which read a sidecar file while it was being
\* written, end with exactly one build-routine invocation and the other
\* caller bound to the builder's directory, whose status is done.
C1_ConcurrentFindBuildsOnce ==
    \A p \in Procs : \A q \in Procs :
        ( /\ p # q
          /\ pc[p] = "done" /\ pc[q] = "done"
          /\ mode[p] = "find" /\ mode[q] = "find"
          /\ spec[p] = spec[q]
          /\ Records(pre[p], spec[p]) = {} /\ Records(pre[q], spec[q]) = {}
          /\ \A r \in Procs \ {p, q} : ~Called(r)
          /\ {outcome[p], outcome[q]} \cap {"build_error", "type_error"} = {} )
        => \/ /\ invoked[p] /\ ~invoked[q]
              /\ outcome[p] = "built" /\ outcome[q] = "bound"
              /\ path[q] = path[p]
              /\ meta[path[p]] = Rec(spec[p], "done")
           \/ /\ invoked[q] /\ ~invoked[p]
              /\ outcome[q] = "built" /\ outcome[p] = "bound"
              /\ path[p] = path[q]
              /\ meta[path[q]] = Rec(spec[q], "done")

\* Callers p and q made consecutive Artifact(spec) calls with the same
\* specification, no other caller under way during either, the first made
\* while no directory recorded it and its build routine returned normally.
C2_Sequential(p, q) ==
    /\ q = p + 1
    /\ pc[p] = "done" /\ pc[q] = "done"
    /\ mode[p] = "find" /\ mode[q] = "find"
    /\ spec[p] = spec[q]
    /\ Alone(p) /\ Alone(q)
    /\ Records(pre[p], spec[p]) = {}
    /\ outcome[p] = "built"

\* C2: with no concurrent callers, two consecutive Artifact(spec) calls
\* with the same specification, the first made while no directory records
\* it and its build routine returning normally: both end bound to the same
\* path, the build routine ran in the first call only, and the directory's
\* entries after the second call are those after the first.
C2_SequentialIdempotent ==
    \A p \in Procs : \A q \in Procs :
        C2_Sequential(p, q)
        => /\ path[q] = path[p]
           /\ outcome[q] = "bound"
           /\ invoked[p] /\ ~invoked[q]
           /\ pre[q].entries[path[p]] = BuildPrefix(spec[p], BuildLen)
           /\ entries[path[p]] = pre[q].entries[path[p]]

\* C2 witness: two such calls have ended.
C2_Witness == \E p \in Procs : \E q \in Procs : C2_Sequential(p, q)

\* Caller p made an Artifact(spec) call while some directory recorded
\* {spec, done}.
C3_HasDone(p) ==
    /\ Called(p)
    /\ mode[p] = "find"
    /\ \E d \in Paths : pre[p].exists[d] /\ pre[p].meta[d] = Rec(spec[p], "done")

C4_NoMatch(p) ==
    /\ pc[p] = "done"
    /\ mode[p] = "find"
    /\ Alone(p)
    /\ Records(pre[p], spec[p]) = {}

\* C4: a constructor call with a specification never returns bound to a
\* directory recording another specification; and an Artifact(spec) call
\* made while no directory records spec, with no other caller under way,
\* builds at a path that did not exist when it was called and leaves every
\* directory that did exist, and its metadata, as it was.
C4_SpecIsolation ==
    /\ \A p \in Procs :
           (pc[p] = "done" /\ mode[p] # "bind" /\ outcome[p] \in {"bound", "built"})
           => IsRec(meta[path[p]]) /\ meta[path[p]].spec = spec[p]
    /\ \A p \in Procs :
           C4_NoMatch(p)
           => /\ outcome[p] \in {"built", "build_error"}
              /\ invoked[p]
              /\ ~pre[p].exists[path[p]] /\ exists[path[p]]
              /\ \A d \in Paths : pre[p].exists[d] =>
                     /\ exists[d]
                     /\ meta[d] = pre[p].meta[d]
                     /\ entries[d] = pre[p].entries[d]

\* C4 witness: the fresh build happens beside a directory recording
\* another spec.
C4_Witness ==
    \E p \in Procs :
        /\ C4_NoMatch(p)
        /\ outcome[p] = "built"
        /\ \E d \in Paths : pre[p].exists[d] /\ IsRec(pre[p].meta[d])

\* One step's effect on the record of directory d.
C5_Step(d) ==
    /\ IsRec(meta[d]) =>
          /\ IsRec(meta'[d])
          /\ meta'[d].spec = meta[d].spec
          /\ \/ meta'[d].status = meta[d].status
             \/ meta[d].status = "running" /\ meta'[d].status \in {"done", "stopped"}
    /\ (~IsRec(meta[d]) /\ IsRec(meta'[d])) => meta'[d].status = "running"

\* C5: in every step, a metadata record keeps its spec, its status stays
\* or moves from running to done or from running to stopped, and a
\* directory's first record has status running.
C5_StatusMonotone == [][\A d \in Paths : C5_Step(d)]_vars

\* C5 witness: both final statuses have been written, each over a running
\* record.
C5_Witness ==
    \E p \in Procs : \E q \in Procs :
        /\ outcome[p] = "built" /\ meta[path[p]] = Rec(spec[p], "done")
        /\ outcome[q] = "build_error" /\ meta[path[q]] = Rec(spec[q], "stopped")

\* C6: an Artifact(spec) call, with no other caller under way, made while
\* the only directories recording spec have status stopped ends with the
\* stopped-mid-build error and without invoking the build routine.
C6_StoppedIsTerminal ==
    \A p \in Procs :
        ( /\ pc[p] = "done"
          /\ mode[p] = "find"
          /\ Alone(p)
          /\ Records(pre[p], spec[p]) # {}
          /\ \A d \in Records(pre[p], spec[p]) : pre[p].meta[d].status = "stopped" )
        => outcome[p] = "stopped" /\ ~invoked[p]

\* C7: a call whose build routine was invoked and raised ends with the
\* build's error, its directory still there with metadata {spec, stopped}
\* and with exactly the entries the build routine had written.
C7_FailedBuildKept ==
    \A p \in Procs :
        (pc[p] = "done" /\ invoked[p] /\ outcome[p] # "built")
        => /\ outcome[p] = "build_error"
           /\ exists[path[p]]
           /\ ~trunc[path[p]]
           /\ meta[path[p]] = Rec(spec[p], "stopped")
           /\ entries[path[p]] = BuildPrefix(spec[p], written[p])

\* C7 witness: the build routine raised after it had written an entry.
C7_Witness ==
    \E p \in Procs :
        pc[p] = "done" /\ outcome[p] = "build_error" /\ written[p] >= 1

\* C8: two concurrent Artifact(path, spec) calls on the same path, which
\* does not exist when either is made, whose build routine does not raise
\* and neither of which read a sidecar file while it was being written:
\* one creates the directory and builds, the other returns bound to the
\* path with status done.
C8_ConcurrentExplicitBuildsOnce ==
    \A p \in Procs : \A q \in Procs :
        ( /\ p # q
          /\ pc[p] = "done" /\ pc[q] = "done"
          /\ mode[p] = "explicit" /\ mode[q] = "explicit"
          /\ spec[p] = spec[q] /\ path[p] = path[q]
          /\ ~pre[p].exists[path[p]] /\ ~pre[q].exists[path[q]]
          /\ \A r \in Procs \ {p, q} : ~Called(r)
          /\ {outcome[p], outcome[q]} \cap {"build_error", "type_error"} = {} )
        => /\ meta[path[p]] = Rec(spec[p], "done")
           /\ \/ invoked[p] /\ ~invoked[q] /\ outcome[p] = "built" /\ outcome[q] = "bound"
              \/ invoked[q] /\ ~invoked[p] /\ outcome[q] = "built" /\ outcome[p] = "bound"

\* Caller p's Artifact(spec) call has ended; it was made, with no other
\* caller under way, on a root whose directories all lack readable metadata.
C9_OnlyUnreadable(p) ==
    /\ pc[p] = "done"
    /\ mode[p] = "find"
    /\ Alone(p)
    /\ Unreadable(pre[p]) # {}
    /\ \A d \in Paths : pre[p].exists[d] => d \in Unreadable(pre[p])

\* C9 (as claimed): an Artifact(spec) call, with no other caller under
\* way, made on a root whose only directories have no readable metadata
\* ends bound to one of them without building.
C9_UnreadableIsCacheHit ==
    \A p \in Procs :
        C9_OnlyUnreadable(p)
        => outcome[p] = "bound" /\ ~invoked[p] /\ path[p] \in Unreadable(pre[p])

\* C9 (amended): _read_meta of a directory whose _meta.yaml is missing or
\* not YAML yields {spec: None, status: done}; None differs from every
\* requested specification, so no call with a specification waits on or
\* binds to such a directory: the scan passes it over and builds at a new
\* path when nothing else matches, and an explicit path fails with the
\* incompatible-spec error.
C9_UnreadableRejected ==
    /\ \A d \in Paths :
           (exists[d] /\ ~trunc[d] /\ ~IsRec(meta[d])) => ReadMeta(d) = Fallback
    /\ \A p \in Procs :
           ( /\ mode[p] # "bind"
             /\ pc[p] \in {"wait", "check"} \/ (pc[p] = "done" /\ outcome[p] = "bound") )
           => IsRec(meta[path[p]])
    /\ \A p \in Procs :
           C9_OnlyUnreadable(p)
           => invoked[p] /\ ~pre[p].exists[path[p]]
    /\ \A p \in Procs :
           ( /\ pc[p] = "done"
             /\ mode[p] = "explicit"
             /\ Alone(p)
             /\ path[p] \in Unreadable(pre[p]) )
           => outcome[p] = "incompatible" /\ ~invoked[p]

\* C9 witness: a scan has passed over an unparsable sidecar file and an
\* explicit path without readable metadata has been refused.
C9_Witness ==
    \E p \in Procs : \E q \in Procs :
        /\ C9_OnlyUnreadable(p)
        /\ \E d \in Unreadable(pre[p]) : meta[d] = Bad
        /\ pc[q] = "done" /\ mode[q] = "explicit" /\ Alone(q)
        /\ path[q] \in Unreadable(pre[q])

\* ---- properties of the storage tree -------------------------------------
\* Nothing backed key at first: no file or directory under its names.
Absent0(key) ==
    \A n \in {key, KeyToName(key), PlusH5(key), PlusH5(KeyToName(key))} :
        files0[n] = NoNode

\* C10: after extend(key, rows1) and extend(key, rows2), both ending
\* normally, on a key without extension that nothing backed, artifact[key]
\* is an ArrayFile holding rows1 followed by rows2.
C10_ExtendTwiceThenGet ==
    \A key \in Keys : \A rows1 \in RowBatches : \A rows2 \in RowBatches :
        ( /\ Suffix(key) = <<>>
          /\ Absent0(key)
          /\ Len(log) = 2
          /\ log[1].op = "extend" /\ log[1].key = key /\ log[1].val = rows1
          /\ log[2].op = "extend" /\ log[2].key = key /\ log[2].val = rows2
          /\ log[1].res = "ok" /\ log[2].res = "ok" )
        => /\ GetItem(key).kind = "array"
           /\ GetItem(key).data = rows1 \o rows2

\* ---- C14 ----------------------------------------------------------------
\* Caller p passed a path and a specification, and at the call the path
\* existed with a record of another specification.
C14_Differs(p) ==
    /\ Called(p)
    /\ mode[p] = "explicit"
    /\ pre[p].exists[path[p]]
    /\ IsRec(pre[p].meta[path[p]])
    /\ pre[p].meta[path[p]].spec # spec[p]

\* C14: Artifact(path, spec) on an existing path whose recorded
\* specification differs from spec fails with the incompatible-spec
\* FileExistsError: it never reaches the wait loop or _build, the build
\* routine is not invoked, and the directory's record and entries are as
\* they were.  (Only a caller that overlaps the directory's builder can end
\* otherwise, by reading the sidecar file while it is rewritten.)
C14_IncompatibleSpecRejected ==
    \A p \in Procs :
        C14_Differs(p) =>
            /\ pc[p] \in {"exists", "readspec", "done"}
            /\ ~invoked[p]
            /\ pc[p] = "done" =>
                 outcome[p] \in {"incompatible"} \cup
                     (IF Alone(p) THEN {} ELSE {"type_error"})
            /\ Alone(p) =>
                 /\ exists[path[p]]
                 /\ meta[path[p]] = pre[p].meta[path[p]]
                 /\ entries[path[p]] = pre[p].entries[path[p]]

C14_Witness ==
    \E p \in Procs :
        /\ C14_Differs(p)
        /\ Alone(p)
        /\ pc[p] = "done"
        /\ outcome[p] = "incompatible"
        /\ entries[path[p]] # <<>>

\* ---- C15 ----------------------------------------------------------------
\* C15: Artifact(path) without a specification never invokes the build
\* routine and never waits: the call is over in one step, bound to the
\* path, and that step changes nothing in the root (no directory is
\* created, no sidecar file is written or opened, no entry is added),
\* whether or not the path exists and whatever its status is.
C15_BindChangesNothing ==
    /\ [](\A p \in Procs :
            Called(p) /\ mode[p] = "bind" =>
                /\ pc[p] = "done"
                /\ outcome[p] = "bound"
                /\ ~invoked[p])
    /\ [][\A p \in Procs :
            pc[p] = "idle" /\ pc'[p] # "idle" /\ mode'[p] = "bind" =>
                UNCHANGED fsVars]_vars

\* Three cases at once would need three callers; the witness is a bind to
\* a path that does not exist, after which it still does not exist.
C15_Witness ==
    \E p \in Procs :
        /\ pc[p] = "done"
        /\ mode[p] = "bind"
        /\ ~exists[path[p]]
        /\ meta[path[p]] = Missing

\* A bind to a directory whose build is under way.
C15_WitnessRunning ==
    \E p \in Procs :
        /\ pc[p] = "done"
        /\ mode[p] = "bind"
        /\ exists[path[p]]
        /\ IsRec(meta[path[p]])
        /\ meta[path[p]].status = "running"
        /\ \E q \in Procs : pc[q] = "build" /\ path[q] = path[p]

\* ---- C16 ----------------------------------------------------------------
\* C16: for every path the build routine is invoked at most once: no two
\* callers both invoke it for the same path, and it is never invoked for
\* a directory that existed when the caller called, whatever its status
\* (stopped included).
C16_BuildOncePerPath ==
    \A p \in Procs :
        invoked[p] =>
            /\ ~pre[p].exists[path[p]]
            /\ \A q \in Procs \ {p} : invoked[q] => path[q] # path[p]

\* Two callers raced to the same missing path: one built it, the other's
\* mkdir failed.
C16_Witness ==
    \E p, q \in Procs :
        /\ p # q
        /\ invoked[p]
        /\ path[q] = path[p]
        /\ ~pre[q].exists[path[q]]
        /\ outcome[q] = "mkdir_exists"

\* ---- C17 ----------------------------------------------------------------
\* C17: a caller of _ensure_built that found its path existing with a
\* matching specification has returned successfully only in states where
\* the directory's record has status done: the sidecar file is complete,
\* it records the caller's specification with status done, and no builder
\* of that directory is between mkdir and its final status write.
C17_ReturnsOnlyWhenDone ==
    \A p \in Procs :
        pc[p] = "done" /\ mode[p] # "bind" /\ outcome[p] = "bound" =>
            /\ exists[path[p]]
            /\ ~trunc[path[p]]
            /\ meta[path[p]] = Rec(spec[p], "done")
            /\ \A q \in Procs : path[q] = path[p] => pc[q] \notin BuildPcs

\* The caller arrived while the build was under way and returned after it.
C17_Witness ==
    \E p, q \in Procs :
        /\ p # q
        /\ pc[p] = "done" /\ mode[p] # "bind" /\ outcome[p] = "bound"
        /\ path[q] = path[p]
        /\ outcome[q] = "built"
        /\ q \in pre[p].active
        /\ pre[p].meta[path[p]] = Rec(spec[p], "running")

\* ---- C18 ----------------------------------------------------------------
\* Directory d records status running and no caller is building it: its
\* builder is gone and will never write a final status.
Stale(d) ==
    /\ exists[d]
    /\ ~trunc[d]
    /\ IsRec(meta[d])
    /\ meta[d].status = "running"
    /\ \A q \in Procs :
         path[q] = d => pc[q] \notin {"wm_open", "wm_flush", "call_build", "build"}

\* Caller p of Artifact(path, spec) found the path recording its
\* specification, so it went through the wait loop.
C18_Waited(p) ==
    /\ pc[p] = "done"
    /\ mode[p] = "explicit"
    /\ pre[p].exists[path[p]]
    /\ IsRec(pre[p].meta[path[p]])
    /\ pre[p].meta[path[p]].spec = spec[p]

LastOp(op, key) ==
    /\ Len(log) >= 1
    /\ log[Len(log)].op = op
    /\ log[Len(log)].key = key

\* Nothing backs key in f: artifact[key] is a sub-Artifact of a path that
\* does not exist, and __iter__ does not yield the key.
NoEntry(f, key) ==
    /\ GetItemIn(f, key).kind = "artifact"
    /\ f[KeyToName(key)].kind = "none"
    /\ Yields(f, KeyToName(key)) = 0

\* Before the first operation the directory held, besides its sidecar
\* file, exactly the entry of key: an array (key without extension, file
\* key.h5), another file (key with extension) or a subdirectory.
C11_Backed0(key) ==
    LET name == KeyToName(key)
    IN  \/ /\ Suffix(name) = <<>>
           /\ files0 \in {[OnlyMeta EXCEPT ![PlusH5(name)] = H5Node(<<0>>)],
                           [OnlyMeta EXCEPT ![name] = DirNode]}
        \/ /\ Suffix(name) # <<>>
           /\ files0 = [OnlyMeta EXCEPT ![name] = FileNode(<<0>>)]

\* C11: whatever backed the key (an array file, any other file, a
\* subdirectory), after del artifact[key] nothing backs it: artifact[key]
\* is an empty sub-Artifact and __iter__ / __len__ no longer count it.
C11_DeleteRemovesEntry ==
    \A key \in Keys :
        C11_Backed0(key) /\ Len(log) = 1 /\ LastOp("delete", key) =>
            NoEntry(files, key)

\* This step is del artifact[key].
C12_Deletes(key) ==
    /\ Len(log') = Len(log) + 1
    /\ log'[Len(log')].op = "delete"
    /\ log'[Len(log')].key = key

\* C12: del artifact[key] never fails; on a key that nothing backs it
\* leaves every name of the directory as it was (siblings, their kinds and
\* contents, the sidecar file); and a second delete of the same key right
\* after the first changes nothing.
C12_DeleteAbsentIsNoOp ==
    [][\A key \in Keys :
         C12_Deletes(key) =>
            /\ log'[Len(log')].res = "ok"
            /\ NoEntry(files, key) => files' = files
            /\ LastOp("delete", key) => files' = files]_vars

\* Two deletes of a key that nothing backed, in a directory that holds a
\* sibling entry besides the sidecar file.
C12_Witness ==
    \E key \in Keys :
        /\ Len(log) = 2
        /\ log[1].op = "delete" /\ log[1].key = key
        /\ LastOp("delete", key)
        /\ NoEntry(files0, key)
        /\ files0 # OnlyMeta
        /\ files = files0

\* ---- C13 ----------------------------------------------------------------
\* The key "x__t" and the file name "x.t" it stands for.
C13_Key == <<"x", "_", "_", "t">>
C13_Name == <<"x", ".", "t">>

\* The last operation was artifact[C13_Key] = Path(file) with the file
\* holding bytes.
C13_JustSet(bytes) ==
    /\ LastOp("setfile", C13_Key)
    /\ log[Len(log)].val = bytes

\* The file "x.t" holds bytes, and both spellings of the key give it.
C13_RoundTrip(bytes) ==
    /\ log[Len(log)].res = "ok"
    /\ files[C13_Name] = FileNode(bytes)
    /\ GetItem(C13_Key) = Entry("encoded", C13_Name, bytes)
    /\ GetItem(C13_Name) = GetItem(C13_Key)

\* C13 as stated: after artifact["x__t"] = file, whatever the directory
\* holds, the file is stored as "x.t", artifact["x__t"] is the EncodedFile
\* with the file's bytes and artifact["x.t"] is the same entry.
C13_SetGetBlob ==
    \A bytes \in Blobs : C13_JustSet(bytes) => C13_RoundTrip(bytes)

\* C13 amended: the file is always stored as "x.t"; the two reads give it
\* provided the directory holds no file named "x.t.h5" (which __getitem__
\* looks for before it looks at "x.t").
C13_SetGetBlobNoH5 ==
    \A bytes \in Blobs :
        C13_JustSet(bytes) =>
            /\ log[Len(log)].res = "ok"
            /\ files[C13_Name] = FileNode(bytes)
            /\ ~IsFile(files, PlusH5(C13_Name)) => C13_RoundTrip(bytes)

\* The file replaced an older "x.t" with other bytes.
C13_Witness ==
    \E bytes \in Blobs :
        /\ C13_JustSet(bytes)
        /\ ~IsFile(files, PlusH5(C13_Name))
        /\ files0[C13_Name].kind = "file"
        /\ files0[C13_Name].data # bytes
        /\ C13_RoundTrip(bytes)

\* ---- C19 ----------------------------------------------------------------
\* C19: after artifact[key] = rows1 and artifact.extend(key, rows2), both
\* ending normally, on a key without extension that nothing backed,
\* artifact[key] is an ArrayFile holding rows1 followed by rows2, and the
\* directory holds one entry for the key: __iter__ yields it once and
\* __len__ has grown by one.
C19_SetThenExtend ==
    \A key \in Keys : \A rows1 \in RowBatches : \A rows2 \in RowBatches :
        ( /\ Suffix(key) = <<>>
          /\ Absent0(key)
          /\ Len(log) = 2
          /\ log[1].op = "set" /\ log[1].key = key /\ log[1].val = rows1
          /\ log[2].op = "extend" /\ log[2].key = key /\ log[2].val = rows2
          /\ log[1].res = "ok" /\ log[2].res = "ok" )
        => /\ GetItem(key).kind = "array"
           /\ GetItem(key).data = rows1 \o rows2
           /\ Yields(files, key) = 1
           /\ LenOf(files) = LenOf(files0) + 1

\* ---- C20 ----------------------------------------------------------------
\* C20: artifact[key] = rows on a key without extension that already holds
\* an array (written by artifact[key] = rows0 just before) ends normally,
\* and artifact[key] is then an ArrayFile holding exactly rows.
C20_SetOverwrites ==
    \A key \in Keys : \A rows0 \in RowBatches : \A rows \in RowBatches :
        ( /\ Suffix(key) = <<>>
          /\ Absent0(key)
          /\ Len(log) = 2
          /\ log[1].op = "set" /\ log[1].key = key /\ log[1].val = rows0
          /\ log[1].res = "ok"
          /\ log[2].op = "set" /\ log[2].key = key /\ log[2].val = rows )
        => /\ log[2].res = "ok"
           /\ GetItem(key) = Entry("array", PlusH5(key), rows)

====
